---------------------------- MODULE Spec2Model ----------------------------
(***************************************************************************)
(* The audio extraction pipeline of youcast: extractAudioStream             *)
(* (utils/audio-extractor.js, src/unnamed/part_001 lines 105-307) and the   *)
(* route that consumes its handle (routes/audio.js, src/unnamed/part_007    *)
(* lines 120-250), for one request.                                         *)
(*                                                                         *)
(* One action per callback of the event loop.  A child process is seen     *)
(* through the events Node delivers for it: stdout 'data', stdout 'end',   *)
(* 'error' (spawn failure) and 'close'.  The continuation of the route's   *)
(* `await` is a microtask: it runs before any further event is handled.    *)
(*                                                                         *)
(* Beside it, each under a specification of its own: the RSS route          *)
(* (routes/rss.js, part_007 lines 1-118), getProfileConfig                  *)
(* (utils/profile-utils.js), and fetchVideosFromPlaylist and                *)
(* getChannelWithVideos (utils/youtube/youtube.js).                         *)
(***************************************************************************)
EXTENDS Naturals, Integers, Sequences, FiniteSets, TLC

\* Largest number of stdout chunks one process emits.
MaxChunks == 2

Procs == {"ytdlp", "ffmpeg"}

\* Exit codes a 'close' event carries: 0, a non-zero code, null (killed by a
\* signal).  A failed spawn closes with the negative errno.
ExitCodes == {"0", "1", "null"}
SpawnErrCode == "-2"

\* profileConfig.postprocessorArgs: absent, or a string (a sequence of
\* characters).
PostprocessorArgsValues ==
  { [present |-> FALSE, text |-> <<>>],
    [present |-> TRUE,  text |-> <<>>],
    [present |-> TRUE,  text |-> <<" ">>],
    [present |-> TRUE,  text |-> <<"\t", " ">>],
    [present |-> TRUE,  text |-> <<" ", "a">>] }

\* Largest number of stderr chunks yt-dlp emits, and the length of one chunk
\* (progress text: no 'error:' marker, no 'Downloading 1 format(s):').
MaxStderrChunks == 2
StderrChunkLen == 300

\* The profiles a request of the pipeline runs with: postprocessorArgs and the
\* remaining fields of profileConfig.
ProfileConfigs ==
  { [postprocessorArgs |-> pp,
     profile |-> IF pp.present /\ pp.text = <<" ", "a">>
                   THEN [contentType |-> "audio/mpeg", fileExtension |-> "mp3",
                         audioFormat |-> "mp3", additionalArgs |-> <<>>]
                   ELSE [contentType |-> "audio/mp4", fileExtension |-> "m4a",
                         audioFormat |-> "m4a", additionalArgs |-> << "--x" >>]]
      : pp \in PostprocessorArgsValues }

\* Inputs of the spawn step taken on its own: the characters a
\* postprocessorArgs string is made of ("ffmpeg:" is the prefix tag, one
\* atom), strings of at most MaxTextLen atoms, additionalArgs of at most
\* MaxAdditionalArgs words.
MaxTextLen == 4
MaxAdditionalArgs == 2
Atoms == {"ffmpeg:", " ", "\t", "a", "b"}
Texts == UNION { [1..n -> Atoms] : n \in 0..MaxTextLen }
AdditionalArgsValues == UNION { [1..n -> {"--x", "--y"}] : n \in 0..MaxAdditionalArgs }
VideoIds == {"abc12345678", "xyz12345678"}

AllProfileConfigs ==
  { [postprocessorArgs |-> pp,
     profile |-> [contentType |-> IF f = "mp3" THEN "audio/mpeg" ELSE "audio/mp4",
                  fileExtension |-> f, audioFormat |-> f, additionalArgs |-> aa]]
      : pp \in {[present |-> FALSE, text |-> <<>>]} \cup [present : {TRUE}, text : Texts],
        f \in {"mp3", "m4a"},
        aa \in AdditionalArgsValues }

\* Values of the RSS route's query parameters: absent, a string (a sequence
\* of characters, at most MaxLimitLen of them for `limit`), or an array (the
\* parameter given more than once).
MaxLimitLen == 4
LimitAtoms == {"0", "1", "5", "9", "-", " ", "a"}
NoneSpellings ==
  { << "n", "o", "n", "e" >>, << "N", "O", "N", "E" >>, << "N", "o", "n", "E" >>,
    << "n", "o", "n", "e", " " >>, << "n", "o", "n" >> }
Absent == [kind |-> "absent", text |-> <<>>]
Str(t) == [kind |-> "string", text |-> t]
LimitValues ==
  {Absent, [kind |-> "array", text |-> <<>>]}
    \cup { Str(t) : t \in UNION { [1..n -> LimitAtoms] : n \in 0..MaxLimitLen } }
    \cup { Str(t) : t \in NoneSpellings }
MinDurationValues ==
  {Absent, Str(<<>>), Str(<< "5" >>), Str(<< "-", "1" >>), Str(<< "5", "a" >>)}
EnvValues == {Absent, Str(<< "9" >>), Str(<< "a" >>)}
IdentifierLengths == {2, 24}

\* Values of req.query.profile and of DEFAULT_AUDIO_PROFILE: absent, or a
\* name.  "constructor" is a member every object inherits.
NoName == [present |-> FALSE, name |-> ""]
Name(n) == [present |-> TRUE, name |-> n]
RequestedProfiles == {NoName, Name(""), Name("mp3"), Name("m4a"), Name("zzz"), Name("constructor")}
DefaultProfileValues == {NoName, Name(""), Name("m4a"), Name("zzz")}

\* Values of req.params.videoId and their lengths.
RequestIds == {"abc1234567", "abc12345678", "xyz12345678", "abc123456789"}
Length(id) ==
  CASE id = "abc1234567" -> 10
    [] id = "abc12345678" -> 11
    [] id = "xyz12345678" -> 11
    [] id = "abc123456789" -> 12

\* fetchVideosFromPlaylist: the limits it is called with, the most pages that
\* come back shorter than asked and the most video-detail answers that lack
\* a video.
FetchLimits == {1, 2, 3, 50, 51, 5000, 5001}
FetchMinDurations == {0, 5}
MaxShortPages == 3
MaxMissing == 1

\* getChannelWithVideos: the longest video list, the durations a video may
\* carry (none, null, or seconds) and the minimum durations asked for.
MaxVideos == 3
NoDuration(k) == [kind |-> k, v |-> 0]
Seconds(n) == [kind |-> "number", v |-> n]
Durations == {NoDuration("undefined"), NoDuration("null"), Seconds(4), Seconds(5), Seconds(9)}
VideoLists ==
  UNION { { [i \in 1..n |-> [id |-> i, duration |-> d[i]]] : d \in [1..n -> Durations] }
            : n \in 0..MaxVideos }
ChannelMinDurations == {0, 5}

\* Most 'close' events one request's listener is run for.
MaxCloses == 2

VARIABLES
  fetch,             \* fetchVideosFromPlaylist: its parameters, its loop variables, its outcome
  yt,                \* getChannelWithVideos after its fetch, and what the RSS route makes of it
  audioReq,          \* audio route: req.query.profile and DEFAULT_AUDIO_PROFILE
  resolved,          \* audio route: what getProfileConfig returned, where the lookup is modelled
  other,             \* the closure of an earlier request still in flight, if any
  rssReq,            \* RSS route: req.query, req.params and the environment
  rss,               \* RSS route: its position, its answer, its provider calls
  videoId,           \* req.params.videoId
  profile,           \* profileConfig without postprocessorArgs
  spawnArgs,         \* argument lists the processes were spawned with
  spawnCount,        \* history: spawn() calls per process
  stderr,            \* length of the closure's stderr string
  handle,            \* the value the promise was resolved with, if any
  res,               \* the HTTP response of the route
  postprocessorArgs, \* profileConfig.postprocessorArgs of the request
  pc,                \* the route handler: "start", "awaiting", "piping", "failed"
  promise,           \* the promise of extractAudioStream
  calls,             \* the resolve/reject calls made on it, in order
  proc,              \* the child processes as the event loop has seen them
  streamStarted,     \* single-stage closure flag
  hasError,          \* two-stage closure flag (failure latch)
  stream,            \* audioStream, the PassThrough of the handle
  received,          \* chunks written to the response
  reqClosed,         \* the consumer has closed its side (req 'close' emitted)
  signalled,         \* processes this request sent a termination signal to
  log,               \* logger.error / logger.success / logger.info entries
  candidates,        \* history: two-stage candidate failure events, as handled
  deliveredAfter     \* history: process events handled before resolve(); -1 = none

\* What is fixed once the processes are spawned.
setup == << videoId, profile, spawnArgs, spawnCount, rssReq, rss, other, audioReq, resolved,
           fetch, yt >>

vars == << fetch, yt, audioReq, resolved, other, rssReq, rss, videoId, profile, spawnArgs, spawnCount, stderr, handle, res,
           postprocessorArgs, pc, promise, calls, proc, streamStarted, hasError,
           stream, received, reqClosed, signalled, log, candidates, deliveredAfter >>

----------------------------------------------------------------------------
\* String.prototype.trim on a sequence of characters.
IsSpace(c) == c \in {" ", "\t"}

RECURSIVE TrimLeft(_)
TrimLeft(s) ==
  IF s = <<>> THEN <<>>
  ELSE IF IsSpace(Head(s)) THEN TrimLeft(Tail(s)) ELSE s

RECURSIVE TrimRight(_)
TrimRight(s) ==
  IF s = <<>> THEN <<>>
  ELSE IF IsSpace(s[Len(s)]) THEN TrimRight(SubSeq(s, 1, Len(s) - 1)) ELSE s

Trim(s) == TrimRight(TrimLeft(s))

\* Mutant of NeedsConversion: the value is not trimmed.
NeedsConversion_NoTrim(pp) == pp.present /\ pp.text /= <<>>

\* needsConversion: postprocessorArgs is truthy and not blank.
NeedsConversion(pp) == pp.present /\ pp.text /= <<>> /\ Trim(pp.text) /= <<>>

Topology == IF NeedsConversion(postprocessorArgs) THEN "two" ELSE "single"

----------------------------------------------------------------------------
\* Argument lists.  A yt-dlp argument is a word; an ffmpeg argument is a
\* sequence of atoms (the characters of postprocessorArgs, or a fixed word as
\* one atom).
VideoUrl(id) ==
  CASE id = "abc12345678" -> "https://www.youtube.com/watch?v=abc12345678"
    [] id = "xyz12345678" -> "https://www.youtube.com/watch?v=xyz12345678"

\* cpus().length.toString()
CpuCount == "4"

\* Two-stage ytdlpArgs.
YtdlpArgs(id) ==
  << "-N", CpuCount, "-f", "bestaudio", "--output", "-", "--no-playlist",
     "--prefer-ffmpeg", VideoUrl(id) >>

\* postprocessorArgs.replace(/^ffmpeg:/, ''): the tag is one atom.
StripTag(s) == IF s /= <<>> /\ Head(s) = "ffmpeg:" THEN Tail(s) ELSE s

\* str.split(' '): the pieces between space characters, empty pieces kept.
RECURSIVE SplitOnSpace(_)
SplitOnSpace(s) ==
  IF \A i \in DOMAIN s : s[i] /= " " THEN << s >>
  ELSE LET k == CHOOSE i \in DOMAIN s : s[i] = " " /\ \A j \in 1..(i - 1) : s[j] /= " "
       IN  << SubSeq(s, 1, k - 1) >> \o SplitOnSpace(SubSeq(s, k + 1, Len(s)))

Word(w) == << w >>

\* ffmpegArgs
FfmpegArgs(pp, prof) ==
  << Word("-i"), Word("pipe:0") >>
    \o SelectSeq(SplitOnSpace(StripTag(pp.text)), LAMBDA arg : Trim(arg) /= <<>>)
    \o << Word("-f"), Word(prof.audioFormat), Word("pipe:1") >>

\* Mutant of Args: additionalArgs go after the source locator.
Args_AfterUrl(id, prof) ==
  << "-N", CpuCount, "-x", "--audio-format", prof.audioFormat, "--output", "-" >>
    \o << VideoUrl(id) >> \o prof.additionalArgs

\* Single-stage args.
Args(id, prof) ==
  << "-N", CpuCount, "-x", "--audio-format", prof.audioFormat, "--output", "-" >>
    \o prof.additionalArgs \o << VideoUrl(id) >>

\* The response before anything was sent; its status line goes out with the
\* first write.
NoResponse == [status |-> "none", ended |-> FALSE]

\* error.message as the catch block classifies it.
ErrorMessages == {"invalid audio format", "Video unavailable", "rate limit", "other"}

\* Mutant of CatchStatus: the final `if (!res.headersSent)` answer is missing.
CatchStatus_NoFallback(m) ==
  CASE m = "invalid audio format" -> "400"
    [] m = "Video unavailable" -> "404"
    [] m = "rate limit" -> "429"
    [] OTHER -> "none"

CatchStatus(m) ==
  CASE m = "invalid audio format" -> "400"
    [] m = "Video unavailable" -> "404"
    [] m = "rate limit" -> "429"
    [] OTHER -> "500"

\* parseInt(string): leading whitespace, an optional sign, then decimal
\* digits up to the first other character; NaN without a digit.
NaN == [nan |-> TRUE, v |-> 0]
Num(n) == [nan |-> FALSE, v |-> n]
IsDigit(c) == c \in {"0", "1", "5", "9"}
DigitValue(c) == CASE c = "0" -> 0 [] c = "1" -> 1 [] c = "5" -> 5 [] c = "9" -> 9

RECURSIVE LeadingDigits(_)
LeadingDigits(s) ==
  IF s = <<>> \/ ~IsDigit(Head(s)) THEN <<>>
  ELSE << Head(s) >> \o LeadingDigits(Tail(s))

RECURSIVE Decimal(_)
Decimal(d) ==
  IF d = <<>> THEN 0
  ELSE 10 * Decimal(SubSeq(d, 1, Len(d) - 1)) + DigitValue(d[Len(d)])

ParseInt(s) ==
  LET t == TrimLeft(s)
      signed == t /= <<>> /\ Head(t) \in {"-", "+"}
      d == LeadingDigits(IF signed THEN Tail(t) ELSE t)
  IN IF d = <<>> THEN NaN
     ELSE Num(IF signed /\ Head(t) = "-" THEN 0 - Decimal(d) ELSE Decimal(d))

\* String.prototype.toLowerCase
ToLowerCase(s) ==
  [i \in DOMAIN s |->
     CASE s[i] = "N" -> "n" [] s[i] = "O" -> "o" [] s[i] = "E" -> "e" [] OTHER -> s[i]]

Min(a, b) == IF a < b THEN a ELSE b

\* let limit = 50; the maximum of videos per channel.
DefaultLimit == 50
MaxLimit == 5000

\* The limit block of the RSS route.  A value that is no string has no
\* toLowerCase: the call throws.
Truthy(q) == q.kind = "array" \/ (q.kind = "string" /\ q.text /= <<>>)
LimitThrows(q) == q.kind = "array"
Limit(q) ==
  IF ~Truthy(q) THEN DefaultLimit
  ELSE IF ToLowerCase(q.text) = << "n", "o", "n", "e" >> THEN MaxLimit
  ELSE LET parsedLimit == ParseInt(q.text)
       IN IF ~parsedLimit.nan /\ parsedLimit.v > 0
            THEN Min(parsedLimit.v, MaxLimit)
            ELSE DefaultLimit

\* const minDuration = query ? parseInt(query) : env ? parseInt(env) : 0
MinDuration(q, env) ==
  IF Truthy(q) THEN ParseInt(q.text)
  ELSE IF Truthy(env) THEN ParseInt(env.text)
  ELSE Num(0)

\* The loaded profiles file: its own entries.  "mp3" converts with ffmpeg,
\* "m4a" streams directly.
ProfilesConfig ==
  [n \in {"mp3", "m4a"} |->
     LET c == CHOOSE c \in ProfileConfigs :
                IF n = "mp3" THEN c.postprocessorArgs = [present |-> TRUE, text |-> <<" ", "a">>]
                             ELSE ~c.postprocessorArgs.present
     IN [kind |-> "config", postprocessorArgs |-> c.postprocessorArgs, profile |-> c.profile]]

\* Members every object parsed from JSON inherits from Object.prototype.
InheritedNames == {"constructor"}
Undefined == [kind |-> "undefined"]
Inherited == [kind |-> "inherited"]

\* Mutant of Lookup: own entries only.
Lookup_OwnOnly(name) ==
  IF name \in DOMAIN ProfilesConfig THEN ProfilesConfig[name] ELSE Undefined

\* profilesConfig[name]: an own entry, else an inherited member, else
\* undefined.
Lookup(name) ==
  IF name \in DOMAIN ProfilesConfig THEN ProfilesConfig[name]
  ELSE IF name \in InheritedNames THEN Inherited
  ELSE Undefined

\* process.env.DEFAULT_AUDIO_PROFILE || 'mp3'
GetDefaultProfile(env) == IF env.present /\ env.name /= "" THEN env.name ELSE "mp3"

\* getProfileConfig(requestedProfile)
GetProfileConfig(requestedProfile, env) ==
  IF requestedProfile.present /\ requestedProfile.name /= ""
       /\ Lookup(requestedProfile.name) /= Undefined
    THEN [profile |-> requestedProfile.name,
          profileConfig |-> Lookup(requestedProfile.name)]
    ELSE [profile |-> GetDefaultProfile(env),
          profileConfig |-> Lookup(GetDefaultProfile(env))]

\* Mutant of ValidVideoId: shorter ids pass.
ValidVideoId_AtMost(id) == Length(id) <= 11

\* videoId && videoId.length === 11
ValidVideoId(id) == Length(id) = 11

\* A child process before spawn().
NoProc == [st |-> "unspawned", out |-> 0, outEnded |-> FALSE,
           errored |-> FALSE, blocked |-> FALSE, code |-> "none"]

\* spawn(): the process runs, nothing seen from it yet.
Spawned == [NoProc EXCEPT !.st = "running"]

\* new PassThrough()
NewPassThrough == [buf |-> <<>>, wEnded |-> FALSE, state |-> "open"]

\* Number of events of the processes handled so far.
EventsHandled(pr) ==
  LET n(p) == pr[p].out + (IF pr[p].outEnded THEN 1 ELSE 0)
                        + (IF pr[p].errored THEN 1 ELSE 0)
                        + (IF pr[p].st = "closed" THEN 1 ELSE 0)
  IN n("ytdlp") + n("ffmpeg")

\* Mutant of Handle: the content type and the extension are fixed values.
Handle_Fixed == [contentType |-> "audio/mpeg", fileExtension |-> "mp3"]

\* The handle passed to resolve(): contentType and fileExtension of the
\* profile (stream is audioStream; title is built from videoId).
Handle == [contentType |-> profile.contentType, fileExtension |-> profile.fileExtension]

\* resolve(handle): settles the promise if it is pending, a no-op otherwise.
Resolve ==
  /\ promise' = IF promise = "pending" THEN "resolved" ELSE promise
  /\ calls' = Append(calls, "resolve")
  /\ deliveredAfter' = IF promise = "pending" THEN EventsHandled(proc) ELSE deliveredAfter
  /\ handle' = IF promise = "pending" THEN << Handle >> ELSE handle

\* reject(error): settles the promise if it is pending, a no-op otherwise.
Reject ==
  /\ promise' = IF promise = "pending" THEN "rejected" ELSE promise
  /\ calls' = Append(calls, "reject")
  /\ UNCHANGED << deliveredAfter, handle >>

NoSettle == UNCHANGED << promise, calls, deliveredAfter, handle >>

Logged(level, at) == log' = Append(log, [level |-> level, at |-> at])

\* Mutant of PipeWrite: the pipe is attached only once the stream has started,
\* so the chunk that starts it is not written.
PipeWrite_AfterStart(s, chunk) ==
  IF s.state = "open" /\ ~s.wEnded /\ streamStarted
    THEN [s EXCEPT !.buf = Append(@, chunk)] ELSE s

\* src.pipe(audioStream), one chunk: written unless the destination was
\* destroyed (which unpipes it).
PipeWrite(s, chunk) ==
  IF s.state = "open" /\ ~s.wEnded THEN [s EXCEPT !.buf = Append(@, chunk)] ELSE s

\* src.pipe(audioStream) at the source's 'end': audioStream.end().
PipeEnd(s) ==
  IF s.state = "open" THEN [s EXCEPT !.wEnded = TRUE] ELSE s

\* The continuation of `await extractAudioStream(...)` is pending.
ContinuationPending == pc = "awaiting" /\ promise /= "pending"

----------------------------------------------------------------------------
\* No call of the metadata provider.
NoFetch == [pc |-> "idle"]
NoYt == [pc |-> "idle"]
NoProviderCall == fetch = NoFetch /\ yt = NoYt

\* The RSS route with no request.
NoRssRequest ==
  /\ NoProviderCall
  /\ rssReq = [limit |-> Absent, minDuration |-> Absent, env |-> Absent, identifier |-> 24]
  /\ rss = [pc |-> "idle", status |-> "none", provider |-> <<>>]

\* A request nothing has been done for yet, but for the route's position.
Unstarted(id, config) ==
  /\ other = <<>>
  /\ videoId = id
  /\ postprocessorArgs = config.postprocessorArgs
  /\ profile = config.profile
  /\ spawnArgs = [p \in Procs |-> <<>>]
  /\ spawnCount = [p \in Procs |-> 0]
  /\ stderr = 0
  /\ handle = <<>>
  /\ res = NoResponse
  /\ promise = "pending"
  /\ calls = <<>>
  /\ proc = [p \in Procs |-> NoProc]
  /\ streamStarted = FALSE
  /\ hasError = FALSE
  /\ stream = NewPassThrough
  /\ received = <<>>
  /\ reqClosed = FALSE
  /\ signalled = {}
  /\ log = <<>>
  /\ candidates = <<>>
  /\ deliveredAfter = -1

\* The state of a request the route is about to call extractAudioStream
\* for: its videoId has 11 characters, its profile is given.
Fresh(id, config) ==
  /\ pc = "start"
  /\ audioReq = [profile |-> NoName, env |-> NoName]
  /\ resolved = <<>>
  /\ Unstarted(id, config)

Init == NoRssRequest /\ \E config \in ProfileConfigs : Fresh("abc12345678", config)

----------------------------------------------------------------------------
\* Mutant of ExtractTwoStage: the handle waits for output, as in single-stage.
ExtractTwoStage_WaitForData ==
  /\ proc' = [p \in Procs |-> Spawned]
  /\ spawnArgs' = [ytdlp |-> YtdlpArgs(videoId), ffmpeg |-> FfmpegArgs(postprocessorArgs, profile)]
  /\ spawnCount' = [p \in Procs |-> spawnCount[p] + 1]
  /\ stderr' = 0
  /\ stream' = NewPassThrough
  /\ hasError' = FALSE
  /\ NoSettle
  /\ UNCHANGED streamStarted

\* Mutant of ExtractTwoStage: hasError is declared outside the call (one
\* latch for all requests, initialised once).
ExtractTwoStage_SharedLatch ==
  /\ proc' = [p \in Procs |-> Spawned]
  /\ spawnArgs' = [ytdlp |-> YtdlpArgs(videoId), ffmpeg |-> FfmpegArgs(postprocessorArgs, profile)]
  /\ spawnCount' = [p \in Procs |-> spawnCount[p] + 1]
  /\ stderr' = 0
  /\ stream' = NewPassThrough
  /\ promise' = "resolved"
  /\ calls' = Append(calls, "resolve")
  /\ deliveredAfter' = EventsHandled(proc')
  /\ handle' = << Handle >>
  /\ UNCHANGED << hasError, streamStarted >>

\* Two-stage branch of extractAudioStream: spawn both, wire the pipes,
\* register the handlers, resolve immediately.
ExtractTwoStage ==
  /\ proc' = [p \in Procs |-> Spawned]
  /\ spawnArgs' = [ytdlp |-> YtdlpArgs(videoId), ffmpeg |-> FfmpegArgs(postprocessorArgs, profile)]
  /\ spawnCount' = [p \in Procs |-> spawnCount[p] + 1]
  /\ stderr' = 0
  /\ stream' = NewPassThrough
  /\ hasError' = FALSE
  /\ promise' = "resolved"
  /\ calls' = Append(calls, "resolve")
  /\ deliveredAfter' = EventsHandled(proc')
  /\ handle' = << Handle >>
  /\ UNCHANGED streamStarted

\* Mutant of ExtractSingleStage: the handle is resolved at spawn.
ExtractSingleStage_ResolveAtSpawn ==
  /\ proc' = [proc EXCEPT !["ytdlp"] = Spawned]
  /\ spawnArgs' = [spawnArgs EXCEPT !["ytdlp"] = Args(videoId, profile)]
  /\ spawnCount' = [spawnCount EXCEPT !["ytdlp"] = @ + 1]
  /\ stderr' = 0
  /\ stream' = NewPassThrough
  /\ streamStarted' = FALSE
  /\ Resolve
  /\ UNCHANGED hasError

\* Single-stage branch: spawn yt-dlp, pipe its stdout, register the handlers.
ExtractSingleStage ==
  /\ proc' = [proc EXCEPT !["ytdlp"] = Spawned]
  /\ spawnArgs' = [spawnArgs EXCEPT !["ytdlp"] = Args(videoId, profile)]
  /\ spawnCount' = [spawnCount EXCEPT !["ytdlp"] = @ + 1]
  /\ stderr' = 0
  /\ stream' = NewPassThrough
  /\ streamStarted' = FALSE
  /\ NoSettle
  /\ UNCHANGED hasError

\* The route calls extractAudioStream and awaits it.
ExtractAudioStream ==
  /\ pc = "start"
  /\ pc' = "awaiting"
  /\ IF NeedsConversion(postprocessorArgs) THEN ExtractTwoStage ELSE ExtractSingleStage
  /\ UNCHANGED << fetch, yt, audioReq, resolved, other, rssReq, rss, videoId, profile, res, postprocessorArgs, received, reqClosed,
                  signalled, log, candidates >>

----------------------------------------------------------------------------
\* Single-stage handlers (closure of the else-branch).

\* Mutant of SingleOnData: the `if (!streamStarted)` guard is missing, every
\* chunk resolves.
SingleOnData_NoGuard(chunk) ==
  /\ stream' = PipeWrite(stream, chunk)
  /\ streamStarted' = TRUE
  /\ Resolve
  /\ UNCHANGED << hasError, log, candidates >>

\* ytdlp.stdout.pipe(audioStream) and ytdlp.stdout.on('data'): the chunk is
\* written to audioStream; the first chunk resolves the promise.
SingleOnData(chunk) ==
  /\ stream' = PipeWrite(stream, chunk)
  /\ IF ~streamStarted
       THEN streamStarted' = TRUE /\ Resolve
       ELSE UNCHANGED streamStarted /\ NoSettle
  /\ UNCHANGED << hasError, log, candidates >>

\* Mutant of SingleOnClose: the failure test is `code > 0`, which a signal
\* exit (null) and a failed spawn (negative errno) do not pass.
SingleOnClose_PositiveOnly(code) ==
  /\ IF code = "1" /\ ~streamStarted
       THEN Logged("error", "ytdlp.close") /\ Reject
       ELSE IF streamStarted
              THEN Logged("success", "ytdlp.close") /\ NoSettle
              ELSE UNCHANGED log /\ NoSettle
  /\ UNCHANGED << stream, streamStarted, hasError, candidates >>

\* ytdlp.on('close', code)
SingleOnClose(code) ==
  /\ IF code /= "0" /\ ~streamStarted
       THEN Logged("error", "ytdlp.close") /\ Reject
       ELSE IF streamStarted
              THEN Logged("success", "ytdlp.close") /\ NoSettle
              ELSE UNCHANGED log /\ NoSettle
  /\ UNCHANGED << stream, streamStarted, hasError, candidates >>

\* ytdlp.on('error', error)
SingleOnError ==
  /\ Logged("error", "ytdlp.error")
  /\ Reject
  /\ UNCHANGED << stream, streamStarted, hasError, candidates >>

\* ytdlp.stdout 'end' through the pipe: audioStream.end().
SingleOnStdoutEnd ==
  /\ stream' = PipeEnd(stream)
  /\ NoSettle
  /\ UNCHANGED << streamStarted, hasError, log, candidates >>

----------------------------------------------------------------------------
\* Two-stage handlers (closure of the needsConversion branch).

\* A candidate failure lands: the first one sets the latch, logs and calls
\* reject(); with the latch set the handler returns at once.
LatchFailure(at) ==
  IF hasError
    THEN UNCHANGED << hasError, log >> /\ NoSettle
    ELSE hasError' = TRUE /\ Logged("error", at) /\ Reject

\* ytdlp.on('error', error)
TwoYtdlpOnError ==
  /\ candidates' = Append(candidates, "ytdlp.error")
  /\ LatchFailure("ytdlp.error")
  /\ UNCHANGED << stream, streamStarted >>

\* ffmpeg.on('error', error)
TwoFfmpegOnError ==
  /\ candidates' = Append(candidates, "ffmpeg.error")
  /\ LatchFailure("ffmpeg.error")
  /\ UNCHANGED << stream, streamStarted >>

\* ytdlp.on('close', code)
TwoYtdlpOnClose(code) ==
  /\ candidates' = IF code /= "0" THEN Append(candidates, "ytdlp.close") ELSE candidates
  /\ IF hasError
       THEN UNCHANGED << hasError, log >> /\ NoSettle
       ELSE IF code /= "0"
              THEN LatchFailure("ytdlp.close")
              ELSE UNCHANGED << hasError, log >> /\ NoSettle
  /\ UNCHANGED << stream, streamStarted >>

\* Mutant of TwoFfmpegOnClose: the `if (hasError) return` guard is missing.
TwoFfmpegOnClose_NoGuard(code) ==
  /\ candidates' = IF code /= "0" THEN Append(candidates, "ffmpeg.close") ELSE candidates
  /\ IF code /= "0"
       THEN hasError' = TRUE /\ Logged("error", "ffmpeg.close") /\ Reject
       ELSE UNCHANGED hasError /\ Logged("success", "ffmpeg.close") /\ NoSettle
  /\ UNCHANGED << stream, streamStarted >>

\* ffmpeg.on('close', code)
TwoFfmpegOnClose(code) ==
  /\ candidates' = IF code /= "0" THEN Append(candidates, "ffmpeg.close") ELSE candidates
  /\ IF hasError
       THEN UNCHANGED << hasError, log >> /\ NoSettle
       ELSE IF code /= "0"
              THEN LatchFailure("ffmpeg.close")
              ELSE UNCHANGED hasError /\ Logged("success", "ffmpeg.close") /\ NoSettle
  /\ UNCHANGED << stream, streamStarted >>

\* ffmpeg.stdout.pipe(audioStream): one chunk.
TwoFfmpegOnData(chunk) ==
  /\ stream' = PipeWrite(stream, chunk)
  /\ NoSettle
  /\ UNCHANGED << streamStarted, hasError, log, candidates >>

\* Mutant of TwoFfmpegOnStdoutEnd: the pipe does not end its destination.
TwoFfmpegOnStdoutEnd_NoEnd ==
  /\ NoSettle
  /\ UNCHANGED << stream, streamStarted, hasError, log, candidates >>

\* ffmpeg.stdout 'end' through the pipe: audioStream.end().
TwoFfmpegOnStdoutEnd ==
  /\ stream' = PipeEnd(stream)
  /\ NoSettle
  /\ UNCHANGED << streamStarted, hasError, log, candidates >>

\* ytdlp.stdout.pipe(ffmpeg.stdin): data and 'end' are relayed to ffmpeg's
\* stdin; no handler of the request runs.
TwoYtdlpRelay ==
  /\ NoSettle
  /\ UNCHANGED << stream, streamStarted, hasError, log, candidates >>

----------------------------------------------------------------------------
\* Events of the child processes, each dispatched to the handlers registered
\* for it.  'close' follows the end of stdout; a failed spawn emits 'error',
\* no data, and closes with the negative errno.

StdoutData ==
  \E p \in Procs :
    /\ ~ContinuationPending
    /\ proc[p].st = "running" /\ ~proc[p].errored /\ ~proc[p].outEnded
    /\ ~proc[p].blocked
    /\ proc[p].out < MaxChunks
    /\ proc' = [proc EXCEPT ![p].out = @ + 1]
    /\ IF Topology = "single" THEN SingleOnData(proc[p].out + 1)
       ELSE IF p = "ffmpeg" THEN TwoFfmpegOnData(proc[p].out + 1)
       ELSE TwoYtdlpRelay
    /\ UNCHANGED << setup, stderr, res, postprocessorArgs, pc, received, reqClosed,
                    signalled >>

StdoutEnd ==
  \E p \in Procs :
    /\ ~ContinuationPending
    /\ proc[p].st = "running" /\ ~proc[p].outEnded
    /\ ~proc[p].blocked
    /\ proc' = [proc EXCEPT ![p].outEnded = TRUE]
    /\ IF Topology = "single" THEN SingleOnStdoutEnd
       ELSE IF p = "ffmpeg" THEN TwoFfmpegOnStdoutEnd
       ELSE TwoYtdlpRelay
    /\ UNCHANGED << setup, stderr, res, postprocessorArgs, pc, received, reqClosed,
                    signalled >>

SpawnError ==
  \E p \in Procs :
    /\ ~ContinuationPending
    /\ proc[p].st = "running" /\ ~proc[p].errored
    /\ proc[p].out = 0 /\ ~proc[p].outEnded
    /\ proc' = [proc EXCEPT ![p].errored = TRUE]
    /\ IF Topology = "single" THEN SingleOnError
       ELSE IF p = "ffmpeg" THEN TwoFfmpegOnError
       ELSE TwoYtdlpOnError
    /\ UNCHANGED << setup, stderr, res, postprocessorArgs, pc, received, reqClosed,
                    signalled >>

ProcClose ==
  \E p \in Procs :
    \E code \in (IF proc[p].errored THEN {SpawnErrCode} ELSE ExitCodes) :
      /\ ~ContinuationPending
      /\ proc[p].st = "running" /\ proc[p].outEnded
      /\ proc' = [proc EXCEPT ![p].st = "closed", ![p].code = code]
      /\ IF Topology = "single" THEN SingleOnClose(code)
         ELSE IF p = "ffmpeg" THEN TwoFfmpegOnClose(code)
         ELSE TwoYtdlpOnClose(code)
      /\ UNCHANGED << setup, stderr, res, postprocessorArgs, pc, received, reqClosed,
                      signalled >>

\* ytdlp.stderr.on('data'): the chunk is appended to the closure's stderr
\* string.  (ffmpeg's stderr is looked at and dropped.)
StderrData ==
  /\ ~ContinuationPending
  /\ proc["ytdlp"].st = "running" /\ ~proc["ytdlp"].errored
  /\ stderr < MaxStderrChunks * StderrChunkLen
  /\ stderr' = stderr + StderrChunkLen
  /\ UNCHANGED << setup, handle, res, postprocessorArgs, pc, promise, calls, proc,
                  streamStarted, hasError, stream, received, reqClosed, signalled,
                  log, candidates, deliveredAfter >>

\* The stdout of p is not drained any more.  audioStream stops taking data
\* once it is destroyed (destroy() unpipes and pauses its source) or once the
\* response it is piped into is closed; ffmpeg's stdin stops taking data once
\* ffmpeg is gone or is itself blocked.
SinkStalled(p) ==
  IF Topology = "two" /\ p = "ytdlp"
    THEN proc["ffmpeg"].blocked \/ proc["ffmpeg"].errored \/ proc["ffmpeg"].st = "closed"
    ELSE stream.state \in {"destroyed", "errored"}
           \/ (reqClosed /\ pc = "piping" /\ stream.state = "open")

\* A process whose stdout is not drained fills the OS pipe and blocks in its
\* write; nothing of the request wakes or signals it.  (It need not block:
\* what it has left to write may fit in the pipe.)
ProcBlocks ==
  \E p \in Procs :
    /\ ~ContinuationPending
    /\ proc[p].st = "running" /\ ~proc[p].errored /\ ~proc[p].outEnded
    /\ ~proc[p].blocked
    /\ SinkStalled(p)
    /\ proc' = [proc EXCEPT ![p].blocked = TRUE]
    /\ UNCHANGED << setup, stderr, res,
                    postprocessorArgs, pc, promise, calls, streamStarted, hasError,
                    stream, received, reqClosed, signalled, log, candidates,
                    deliveredAfter, handle >>

----------------------------------------------------------------------------
\* The route after `await`: headers, req.on('close'), stream.on('error'),
\* stream.on('data'), stream.on('end'), stream.pipe(res).
RouteResume ==
  /\ pc = "awaiting" /\ promise = "resolved"
  /\ pc' = "piping"
  /\ UNCHANGED << setup, stderr, res, postprocessorArgs, promise, calls, proc, streamStarted, hasError,
                  stream, received, reqClosed, signalled, log, candidates,
                  deliveredAfter, handle >>

\* Mutant of RouteCatch: the route calls extractAudioStream again.
RouteCatch_Retry ==
  /\ pc = "awaiting" /\ promise = "rejected"
  /\ pc' = "start"
  /\ Logged("error", "route.catch")
  /\ UNCHANGED << setup, stderr, res, postprocessorArgs, promise, calls, proc,
                  streamStarted, hasError, stream, received, reqClosed, signalled,
                  candidates, deliveredAfter, handle >>

\* The route's catch block: an error response.
RouteCatch ==
  /\ pc = "awaiting" /\ promise = "rejected"
  /\ pc' = "failed"
  /\ Logged("error", "route.catch")
  /\ \E m \in ErrorMessages : res' = [status |-> CatchStatus(m), ended |-> TRUE]
  /\ UNCHANGED << setup, stderr, postprocessorArgs, promise, calls, proc, streamStarted, hasError,
                  stream, received, reqClosed, signalled, candidates,
                  deliveredAfter, handle >>

\* Mutant of Destroy: the stream is left as it is (paused, not destroyed).
Destroy_PauseOnly(s) == s

\* stream.destroy(): the PassThrough drops what it buffered and is unpiped
\* from its source; no process is signalled by it.
Destroy(s) == [s EXCEPT !.state = "destroyed", !.buf = <<>>]

\* Mutant of OnReqClose: the disconnect is logged at error level.
OnReqClose_LogsError ==
  /\ Logged("error", "req.close")
  /\ stream' = IF stream.state = "open" THEN Destroy(stream) ELSE stream

\* Mutant of OnReqClose: the `!stream.destroyed` guard is missing.
OnReqClose_NoGuard ==
  /\ Logged("info", "req.close")
  /\ stream' = Destroy(stream)

\* req.on('close'): the listener exists only once the route has resumed.
OnReqClose ==
  /\ Logged("info", "req.close")
  /\ stream' = IF stream.state = "open" THEN Destroy(stream) ELSE stream

\* The consumer closes its side of the connection (req emits 'close').
ConsumerDisconnect ==
  /\ ~ContinuationPending
  /\ pc /= "start" /\ ~reqClosed
  /\ reqClosed' = TRUE
  /\ IF pc = "piping" THEN OnReqClose ELSE UNCHANGED << log, stream >>
  /\ UNCHANGED << setup, stderr, res, postprocessorArgs, pc, promise, calls, proc, streamStarted,
                  hasError, received, signalled, candidates, deliveredAfter, handle >>

\* stream.pipe(res): one buffered chunk goes to the response.  A response
\* whose connection is closed accepts nothing more.
ConsumerRead ==
  /\ pc = "piping" /\ ~reqClosed
  /\ stream.state = "open" /\ stream.buf /= <<>>
  /\ received' = Append(received, Head(stream.buf))
  /\ stream' = [stream EXCEPT !.buf = Tail(@)]
  /\ res' = [res EXCEPT !.status = "200"]
  /\ UNCHANGED << setup, stderr, postprocessorArgs, pc, promise, calls, proc, streamStarted,
                  hasError, reqClosed, signalled, log, candidates, deliveredAfter, handle >>

\* audioStream 'end': ended by its source and drained by the response.
StreamEnd ==
  /\ pc = "piping" /\ ~reqClosed
  /\ stream.state = "open" /\ stream.wEnded /\ stream.buf = <<>>
  /\ stream' = [stream EXCEPT !.state = "ended"]
  /\ Logged("success", "stream.end")
  /\ res' = [status |-> "200", ended |-> TRUE]
  /\ UNCHANGED << setup, stderr, postprocessorArgs, pc, promise, calls, proc, streamStarted,
                  hasError, received, reqClosed, signalled, candidates,
                  deliveredAfter, handle >>

\* stream.on('error') of the route: logged; an error response only if no
\* header has gone out yet.
StreamOnError ==
  /\ Logged("error", "stream.error")
  /\ res' = IF res.status = "none" THEN [status |-> "500", ended |-> TRUE] ELSE res

\* The handle's stream emits 'error' while the route pipes it (a Readable
\* may; nothing in extractAudioStream makes audioStream do so).  An errored
\* stream drops its buffer and is unpiped from the response.
StreamError ==
  /\ pc = "piping" /\ stream.state = "open"
  /\ stream' = [stream EXCEPT !.state = "errored", !.buf = <<>>]
  /\ StreamOnError
  /\ UNCHANGED << setup, stderr, postprocessorArgs, pc, promise, calls, proc,
                  streamStarted, hasError, received, reqClosed, signalled,
                  candidates, deliveredAfter, handle >>

----------------------------------------------------------------------------
Next ==
  \/ ExtractAudioStream
  \/ RouteResume
  \/ RouteCatch
  \/ StdoutData
  \/ StdoutEnd
  \/ SpawnError
  \/ ProcClose
  \/ StderrData
  \/ ProcBlocks
  \/ ConsumerDisconnect
  \/ ConsumerRead
  \/ StreamEnd

Spec == Init /\ [][Next]_vars

\* The event loop runs a ready continuation, and a connected response keeps
\* draining the stream piped into it.  Nothing obliges a child process to
\* make progress.
FairSpec ==
  /\ Spec
  /\ WF_vars(RouteResume)
  /\ WF_vars(RouteCatch)
  /\ WF_vars(ConsumerRead)
  /\ WF_vars(StreamEnd)

----------------------------------------------------------------------------
\* The request with a handle whose stream may emit 'error'.
ErrNext ==
  \/ ExtractAudioStream
  \/ RouteResume
  \/ RouteCatch
  \/ StdoutData
  \/ StdoutEnd
  \/ SpawnError
  \/ ProcClose
  \/ StderrData
  \/ ProcBlocks
  \/ ConsumerDisconnect
  \/ ConsumerRead
  \/ StreamEnd
  \/ StreamError

ErrSpec == Init /\ [][ErrNext]_vars

\* router.get('/:channelIdentifier') up to its await: limit, minDuration and
\* identifier are checked, then the metadata provider is called.  An
\* exception goes to the catch block (500).
RssRoute ==
  /\ rss.pc = "start"
  /\ LET q == rssReq
         minDuration == MinDuration(q.minDuration, q.env)
     IN rss' =
          IF LimitThrows(q.limit)
            THEN [rss EXCEPT !.pc = "answered", !.status = "500"]
          ELSE IF minDuration.nan \/ minDuration.v < 0
            THEN [rss EXCEPT !.pc = "answered", !.status = "400"]
          ELSE IF q.identifier < 3
            THEN [rss EXCEPT !.pc = "answered", !.status = "400"]
          ELSE [rss EXCEPT !.pc = "awaiting",
                           !.provider = << [limit |-> Limit(q.limit),
                                            minDuration |-> minDuration.v] >>]
  /\ UNCHANGED << fetch, yt, audioReq, resolved, other, rssReq, videoId, profile, spawnArgs, spawnCount, stderr, handle, res,
                  postprocessorArgs, pc, promise, calls, proc, streamStarted,
                  hasError, stream, received, reqClosed, signalled, log,
                  candidates, deliveredAfter >>

\* One RSS request, for every value of its parameters; no audio request.
RssInit ==
  /\ rssReq \in [limit : LimitValues, minDuration : MinDurationValues,
                  env : EnvValues, identifier : IdentifierLengths]
  /\ rss = [pc |-> "start", status |-> "none", provider |-> <<>>]
  /\ NoProviderCall
  /\ Fresh("abc12345678", CHOOSE config \in ProfileConfigs : ~config.postprocessorArgs.present)

RssNext == RssRoute

RssSpec == RssInit /\ [][RssNext]_vars

\* What one call of extractAudioStream keeps in its closure, as a later
\* request could disturb it.
ClosureState ==
  [topology |-> Topology, hasError |-> hasError, streamStarted |-> streamStarted,
   promise |-> promise]

\* A second request arrives while the first is in flight.  Its route, its
\* promise, its processes and its response are new; the closure variables are
\* created by its call of extractAudioStream, not before.  The first
\* request's closure is kept aside.
NextRequest ==
  /\ other = <<>> /\ pc /= "start" /\ ~ContinuationPending
  /\ other' = << ClosureState >>
  /\ \E config \in ProfileConfigs :
       /\ postprocessorArgs' = config.postprocessorArgs
       /\ profile' = config.profile
  /\ videoId' = "xyz12345678"
  /\ spawnArgs' = [p \in Procs |-> <<>>]
  /\ spawnCount' = [p \in Procs |-> 0]
  /\ handle' = <<>>
  /\ res' = NoResponse
  /\ pc' = "start"
  /\ promise' = "pending"
  /\ calls' = <<>>
  /\ proc' = [p \in Procs |-> NoProc]
  /\ received' = <<>>
  /\ reqClosed' = FALSE
  /\ signalled' = {}
  /\ log' = <<>>
  /\ candidates' = <<>>
  /\ deliveredAfter' = -1
  /\ UNCHANGED << fetch, yt, audioReq, resolved, rssReq, rss, hasError, streamStarted, stderr,
                  stream >>

\* Two requests: the first up to any point, then the second.
IsoNext ==
  \/ ExtractAudioStream
  \/ RouteResume
  \/ RouteCatch
  \/ StdoutData
  \/ StdoutEnd
  \/ SpawnError
  \/ ProcClose
  \/ StderrData
  \/ ProcBlocks
  \/ ConsumerDisconnect
  \/ ConsumerRead
  \/ StreamEnd
  \/ NextRequest

IsoSpec == Init /\ [][IsoNext]_vars

\* router.get('/:videoId') from its entry to the call of extractAudioStream:
\* the videoId is checked (400 and return), then the profile is looked up.
\* profile and postprocessorArgs hold the fields of the configuration once it
\* is resolved.
AudioRoute ==
  /\ pc = "received"
  /\ IF ~ValidVideoId(videoId)
       THEN /\ pc' = "answered"
            /\ res' = [status |-> "400", ended |-> TRUE]
            /\ UNCHANGED << resolved, postprocessorArgs, profile >>
       ELSE LET r == GetProfileConfig(audioReq.profile, audioReq.env)
            IN /\ pc' = "start"
               /\ resolved' = << r >>
               /\ IF r.profileConfig.kind = "config"
                    THEN /\ postprocessorArgs' = r.profileConfig.postprocessorArgs
                         /\ profile' = r.profileConfig.profile
                    ELSE UNCHANGED << postprocessorArgs, profile >>
               /\ UNCHANGED res
  /\ UNCHANGED << fetch, yt, audioReq, other, rssReq, rss, videoId, spawnArgs, spawnCount, stderr,
                  handle, promise, calls, proc, streamStarted, hasError, stream,
                  received, reqClosed, signalled, log, candidates, deliveredAfter >>

\* extractAudioStream with a profileConfig that is no profile: reading
\* `profileConfig.description` of undefined, or spreading the missing
\* additionalArgs, throws before any spawn(); the catch block rejects.
ExtractThrows ==
  /\ pc = "start"
  /\ resolved /= <<>> /\ resolved[1].profileConfig.kind /= "config"
  /\ pc' = "awaiting"
  /\ Reject
  /\ Logged("error", "extract.catch")
  /\ UNCHANGED << setup, stderr, res, postprocessorArgs, proc, streamStarted, hasError,
                  stream, received, reqClosed, signalled, candidates >>

\* The configuration the route resolved is a profile of the file.
ConfigUsable == resolved /= <<>> /\ resolved[1].profileConfig.kind = "config"

\* One audio request from its arrival, for every videoId, requested profile
\* and default: the handler as far as its `await`.
RouteInit ==
  /\ NoRssRequest
  /\ pc = "received"
  /\ audioReq \in [profile : RequestedProfiles, env : DefaultProfileValues]
  /\ resolved = <<>>
  /\ \E id \in RequestIds :
       Unstarted(id, CHOOSE config \in ProfileConfigs : ~config.postprocessorArgs.present)

RouteNext ==
  \/ AudioRoute
  \/ (ConfigUsable /\ ExtractAudioStream)
  \/ ExtractThrows

RouteSpec == RouteInit /\ [][RouteNext]_vars

\* fetchVideosFromPlaylist (utils/youtube/youtube.js).  Videos are counted,
\* not listed.
PageMax == 50
PlaylistMax == 5000

\* const maxLimit = Math.min(limit, 5000)
FetchMaxLimit(limit) == Min(limit, PlaylistMax)

\* Mutant of BatchSize: a full page is asked for every time.
BatchSize_Full(maxLimit, totalFetched) == PageMax

\* const batchSize = Math.min(50, maxLimit - totalFetched)
BatchSize(maxLimit, totalFetched) == Min(PageMax, maxLimit - totalFetched)

\* Mutant of Advance: the page's items are not counted.
Advance_Stuck(totalFetched, n) == totalFetched

\* totalFetched += playlistData.items.length
Advance(totalFetched, n) == totalFetched + n

\* Numbers of items a page asked with maxResults = b comes back with: one,
\* one less than asked, or as many as asked.
PageSizes(b) == { n \in {1, b - 1, b} : n >= 1 }

\* A call with its loop variables as the first test of `while` finds them.
FetchCall(limit, minDuration) ==
  [pc |-> "loop", limit |-> limit, minDuration |-> minDuration,
   totalFetched |-> 0, videos |-> 0, nextPageToken |-> FALSE,
   firstPlaylistItem |-> FALSE,
   requests |-> 0, asked |-> <<>>, short |-> 0, missing |-> 0]

\* The playlistItems request of one iteration: one more request, of
\* batchSize items with the budget that was left.
Asked(f) ==
  LET maxLimit == FetchMaxLimit(f.limit)
  IN [f EXCEPT !.requests = @ + 1,
               !.asked = << [maxResults |-> BatchSize(maxLimit, f.totalFetched),
                             budget |-> maxLimit - f.totalFetched] >>]

\* One iteration whose page answer is not ok: the function throws.
FetchPageError ==
  /\ fetch.pc = "loop"
  /\ fetch' = [Asked(fetch) EXCEPT !.pc = "threw"]

\* One iteration whose page has no items: break, return.
FetchPageEmpty ==
  /\ fetch.pc = "loop"
  /\ fetch' = [Asked(fetch) EXCEPT !.pc = "returned"]

\* One iteration whose page has items but, with minDuration > 0, whose
\* videos answer is not ok: the function throws.
FetchDetailsError ==
  /\ fetch.pc = "loop" /\ fetch.minDuration > 0
  /\ fetch' = [Asked(fetch) EXCEPT !.pc = "threw", !.firstPlaylistItem = TRUE]

\* One iteration whose page has n items: the videos are pushed (the detailed
\* ones the videos endpoint returned when minDuration > 0), totalFetched and
\* nextPageToken are updated, and the loop goes on unless there is no next
\* page or the limit is reached.
FetchPageItems ==
  /\ fetch.pc = "loop"
  /\ LET maxLimit == FetchMaxLimit(fetch.limit)
         b == BatchSize(maxLimit, fetch.totalFetched)
     IN \E n \in PageSizes(b), token \in BOOLEAN, lacking \in {0, 1} :
          /\ n < b => fetch.short < MaxShortPages
          /\ lacking = 1 => fetch.minDuration > 0 /\ fetch.missing < MaxMissing
          /\ LET total == Advance(fetch.totalFetched, n)
             IN fetch' = [Asked(fetch) EXCEPT
                            !.firstPlaylistItem = TRUE,
                            !.videos = @ + n - lacking,
                            !.totalFetched = total,
                            !.nextPageToken = token,
                            !.short = IF n < b THEN @ + 1 ELSE @,
                            !.missing = @ + lacking,
                            !.pc = IF ~token \/ total >= maxLimit \/ ~(total < maxLimit)
                                     THEN "returned" ELSE "loop"]

\* What the call returned.
FetchResult ==
  [videos |-> fetch.videos, totalVideos |-> fetch.videos,
   hasMore |-> fetch.nextPageToken /\ fetch.videos < fetch.limit,
   firstPlaylistItem |-> fetch.firstPlaylistItem]

FetchStep == FetchPageError \/ FetchPageEmpty \/ FetchDetailsError \/ FetchPageItems

FetchInit ==
  /\ rssReq = [limit |-> Absent, minDuration |-> Absent, env |-> Absent, identifier |-> 24]
  /\ rss = [pc |-> "idle", status |-> "none", provider |-> <<>>]
  /\ yt = NoYt
  /\ \E limit \in FetchLimits, minDuration \in FetchMinDurations :
       fetch = FetchCall(limit, minDuration)
  /\ Fresh("abc12345678", CHOOSE config \in ProfileConfigs : ~config.postprocessorArgs.present)

FetchNext ==
  /\ FetchStep
  /\ UNCHANGED << yt, audioReq, resolved, other, rssReq, rss, videoId, profile, spawnArgs,
                  spawnCount, stderr, handle, res, postprocessorArgs, pc, promise, calls,
                  proc, streamStarted, hasError, stream, received, reqClosed, signalled,
                  log, candidates, deliveredAfter >>

\* A pending page answer arrives: the API answers, well or badly.
FetchSpec == FetchInit /\ [][FetchNext]_vars /\ WF_vars(FetchNext)

\* getChannelWithVideos from the point where its fetch has come back, and the
\* RSS route that awaits it.

\* What getChannelUUID resolved the identifier to: a playlist or a channel's
\* uploads playlist, with or without channel information.
Resolutions == [isPlaylist : BOOLEAN, providedChannelInfo : BOOLEAN]

\* channelInfo of getChannelVideos / getPlaylistVideos: "none" is null.
ChannelInfoOf(resolution, firstPlaylistItem) ==
  IF resolution.isPlaylist
    THEN IF firstPlaylistItem THEN "playlist" ELSE "none"
    ELSE IF resolution.providedChannelInfo THEN "provided"
         ELSE IF firstPlaylistItem THEN "firstItem" ELSE "none"

\* Mutant of Keeps: a video of exactly the minimum duration is dropped.
Keeps_Strict(video, minDuration) ==
  video.duration.kind \in {"undefined", "null"} \/ video.duration.v > minDuration

\* The filter callback.
Keeps(video, minDuration) ==
  IF video.duration.kind \in {"undefined", "null"} THEN TRUE
  ELSE video.duration.v >= minDuration

\* Array.prototype.filter with that callback.
RECURSIVE Filter(_, _)
Filter(videos, minDuration) ==
  IF videos = <<>> THEN <<>>
  ELSE (IF Keeps(Head(videos), minDuration) THEN << Head(videos) >> ELSE <<>>)
         \o Filter(Tail(videos), minDuration)

\* The rest of getChannelWithVideos: a fetch that threw is rethrown; else
\* the videos are filtered when minDuration > 0, then the summary line reads
\* finalChannelInfo.id, which throws when there is no channel information
\* (caught, logged and rethrown); else the result is returned.
GetChannelWithVideos ==
  /\ yt.pc = "fetched"
  /\ LET info == ChannelInfoOf(yt.resolution, yt.firstPlaylistItem)
         filteredVideos == IF yt.minDuration > 0 THEN Filter(yt.videos, yt.minDuration)
                           ELSE yt.videos
     IN yt' = IF yt.fetchThrew \/ info = "none"
                THEN [yt EXCEPT !.pc = "threw"]
                ELSE [yt EXCEPT !.pc = "returned",
                                !.result = << [channel |-> info, videos |-> filteredVideos,
                                               totalVideos |-> Len(filteredVideos)] >>]
  /\ UNCHANGED rss

\* The RSS route after its await: 404 without channel or without videos,
\* the feed otherwise; the catch block answers 500.
RssResume ==
  /\ rss.pc = "awaiting" /\ yt.pc \in {"returned", "threw"}
  /\ rss' = IF yt.pc = "threw"
              THEN [rss EXCEPT !.pc = "answered", !.status = "500",
                               !.error = "Failed to generate RSS feed"]
            ELSE IF yt.result[1].channel = "none"
              THEN [rss EXCEPT !.pc = "answered", !.status = "404",
                               !.error = "Content not found"]
            ELSE IF yt.result[1].videos = <<>>
              THEN [rss EXCEPT !.pc = "answered", !.status = "404",
                               !.error = "No videos found"]
            ELSE [rss EXCEPT !.pc = "answered", !.status = "200"]
  /\ UNCHANGED yt

\* One RSS request that awaits getChannelWithVideos, whose fetch has come
\* back (or thrown): every resolution, list of videos and minimum duration.
\* Without a first playlist item no page had items, so there are no videos.
ChannelInit ==
  /\ rssReq = [limit |-> Absent, minDuration |-> Absent, env |-> Absent, identifier |-> 24]
  /\ fetch = NoFetch
  /\ \E resolution \in Resolutions, videos \in VideoLists, first \in BOOLEAN,
        threw \in BOOLEAN, minDuration \in ChannelMinDurations :
       /\ ~first => videos = <<>>
       /\ threw => videos = <<>> /\ ~first
       /\ yt = [pc |-> "fetched", resolution |-> resolution, videos |-> videos,
                firstPlaylistItem |-> first, fetchThrew |-> threw,
                minDuration |-> minDuration, result |-> <<>>]
       /\ rss = [pc |-> "awaiting", status |-> "none", error |-> "none",
                 provider |-> << [limit |-> DefaultLimit, minDuration |-> minDuration] >>]
  /\ Fresh("abc12345678", CHOOSE config \in ProfileConfigs : ~config.postprocessorArgs.present)

ChannelNext ==
  /\ GetChannelWithVideos \/ RssResume
  /\ UNCHANGED << fetch, audioReq, resolved, other, rssReq, videoId, profile, spawnArgs,
                  spawnCount, stderr, handle, res, postprocessorArgs, pc, promise, calls,
                  proc, streamStarted, hasError, stream, received, reqClosed, signalled,
                  log, candidates, deliveredAfter >>

ChannelSpec == ChannelInit /\ [][ChannelNext]_vars

\* The req 'close' listener is run once more (Node emits 'close' once; a
\* repeated event shows what the listener does when it is not the first).
SecondClose ==
  /\ ~ContinuationPending
  /\ pc = "piping" /\ reqClosed
  /\ Len(SelectSeq(log, LAMBDA e : e.at = "req.close")) < MaxCloses
  /\ OnReqClose
  /\ UNCHANGED << setup, stderr, res, postprocessorArgs, pc, promise, calls, proc, streamStarted,
                  hasError, received, reqClosed, signalled, candidates, deliveredAfter,
                  handle >>

\* The request with a consumer whose close event may repeat.
CancelNext ==
  \/ ExtractAudioStream
  \/ RouteResume
  \/ RouteCatch
  \/ StdoutData
  \/ StdoutEnd
  \/ SpawnError
  \/ ProcClose
  \/ StderrData
  \/ ProcBlocks
  \/ ConsumerDisconnect
  \/ ConsumerRead
  \/ StreamEnd
  \/ SecondClose

CancelSpec == Init /\ [][CancelNext]_vars

\* The spawn step on its own, for every profile and video id: the request
\* as far as the spawn() calls.
ArgsInit ==
  /\ NoRssRequest
  /\ \E id \in VideoIds : \E config \in AllProfileConfigs : Fresh(id, config)

ArgsNext == ExtractAudioStream

ArgsSpec == ArgsInit /\ [][ArgsNext]_vars

----------------------------------------------------------------------------
\* Vocabulary of the properties.

Range(f) == { f[i] : i \in DOMAIN f }

Closed(p) == proc[p].st = "closed"
ClosedNonZero(p) == Closed(p) /\ proc[p].code /= "0"
Running(p) == proc[p].st = "running"

\* stdout chunks of p the event loop has seen, in emission order.
Emitted(p) == [i \in 1..proc[p].out |-> i]

\* The handle's stream has made its terminal transition.
StreamTerminal == stream.state \in {"ended", "errored", "destroyed"}

\* The req 'close' listener has run.
DisconnectHandled == \E i \in DOMAIN log : log[i] = [level |-> "info", at |-> "req.close"]

\* Entries of the extractor's log at one level, in order.
Entries(level) == SelectSeq(log, LAMBDA e : e.level = level /\ e.at /= "route.catch"
                                             /\ e.at /= "stream.end")
At(entries) == [i \in DOMAIN entries |-> entries[i].at]

\* Nothing of the request can happen any more, short of the consumer closing
\* its side.
Settled ==
  ~ENABLED (ExtractAudioStream \/ RouteResume \/ RouteCatch \/ StdoutData
              \/ StdoutEnd \/ SpawnError \/ ProcClose \/ StderrData \/ ProcBlocks
              \/ ConsumerRead \/ StreamEnd)

\* Every error-level entry of the log.
AllErrors == SelectSeq(log, LAMBDA e : e.level = "error")

\* The stdout that feeds audioStream.
Source == IF Topology = "single" THEN "ytdlp" ELSE "ffmpeg"

\* The per-request state of the pipeline, read off the closure: SPAWNING
\* until the promise settles, REJECTED when it was rejected; with a handle
\* delivered, FAILED once a failure is latched or the stream errored, DONE
\* once the extractor recorded completion, STREAMING otherwise.
ReqState ==
  IF promise = "pending" THEN "SPAWNING"
  ELSE IF promise = "rejected" THEN "REJECTED"
  ELSE IF hasError \/ stream.state = "errored" THEN "FAILED"
  ELSE IF Entries("success") /= <<>> THEN "DONE"
  ELSE "STREAMING"

\* The longest excerpt of stderr the extractor itself takes: substring(0, 500).
DiagLimit == 500

\* Length of the diagnostic text in the message of the rejection error: the
\* close handler of single-stage puts all of stderr in it (the spawn error
\* handler puts none).
RejectionDiag ==
  IF Topology = "single" /\ promise = "rejected" /\ ~proc["ytdlp"].errored
    THEN stderr ELSE 0

\* The processes have been spawned.
SpawnDone == pc /= "start"

\* postprocessorArgs is absent or holds nothing but whitespace.
Blank(pp) == ~pp.present \/ \A i \in DOMAIN pp.text : pp.text[i] \in {" ", "\t"}

\* The maximal runs of non-whitespace atoms of s, in order.
RECURSIVE Tokens(_)
Tokens(s) ==
  LET ws(c) == c \in {" ", "\t"}
  IN IF s = <<>> THEN <<>>
     ELSE IF ws(Head(s)) THEN Tokens(Tail(s))
     ELSE LET n == IF \E i \in DOMAIN s : ws(s[i])
                     THEN (CHOOSE i \in DOMAIN s : ws(s[i]) /\ \A j \in 1..(i - 1) : ~ws(s[j])) - 1
                     ELSE Len(s)
          IN << SubSeq(s, 1, n) >> \o Tokens(SubSeq(s, n + 1, Len(s)))

\* The RSS request was let through by the checks that do not concern limit.
RssOthersValid ==
  /\ LET m == MinDuration(rssReq.minDuration, rssReq.env) IN ~m.nan /\ m.v >= 0
  /\ rssReq.identifier >= 3

\* The outcome kinds the extractor recorded for the request.
RecordedKinds ==
  (IF Entries("success") /= <<>> THEN {"success"} ELSE {})
    \cup (IF Entries("error") /= <<>> THEN {"failed"} ELSE {})

----------------------------------------------------------------------------
\* C1: single-stage, once the extractor has closed (any exit code, any number
\* of stdout chunks, or after a spawn error) the promise is settled, resolved
\* or rejected, and not pending.
C1_SettledByClose ==
  (Topology = "single" /\ Closed("ytdlp")) => promise \in {"resolved", "rejected"}

\* C2: two-stage, a stage that closed with a non-zero code while the consumer
\* was connected has made the handle's stream fail (state errored), and no
\* reject() was spent on the failure after the handle was delivered.
C2_NonZeroCloseFailsStream ==
  (Topology = "two" /\ ~reqClosed /\ (\E p \in Procs : ClosedNonZero(p)))
    => (stream.state = "errored" /\ "reject" \notin Range(calls))

\* C3: once a disconnect was handled while the request was streaming, the
\* stream is destroyed and every owned process has been signalled to
\* terminate (or has already closed).
C3_DisconnectTerminatesOwned ==
  (DisconnectHandled /\ stream.state /= "ended")
    => /\ stream.state = "destroyed"
       /\ \A p \in Procs : Running(p) => p \in signalled

\* C4: two-stage failure latch.  The latch is set exactly when a candidate
\* failure has been handled, the one error reported is the first candidate
\* handled, a candidate handled with the latch set changes nothing of the
\* request, and the latch is never cleared.
C4_FirstFailureWins ==
  /\ [](Topology = "two" =>
          /\ hasError <=> candidates /= <<>>
          /\ At(Entries("error")) =
               IF candidates = <<>> THEN <<>> ELSE << Head(candidates) >>)
  /\ [][(Topology = "two" /\ hasError) =>
          /\ hasError'
          /\ (candidates' /= candidates =>
                UNCHANGED << promise, calls, log, stream, streamStarted >>)]_vars

\* C4 witness: two candidates were handled and one error is reported.
C4_Witness ==
  /\ Topology = "two" /\ Len(candidates) >= 2 /\ hasError
  /\ Len(Entries("error")) = 1
  /\ candidates[2] /= candidates[1]

\* C5: two-stage, once both processes have closed the recorded outcome kind
\* is determined by their results alone: success when both exited 0, failed
\* otherwise, whatever the order in which their events were handled.
C5_OutcomeByResults ==
  (Topology = "two" /\ Closed("ytdlp") /\ Closed("ffmpeg"))
    => RecordedKinds =
         IF proc["ytdlp"].code = "0" /\ proc["ffmpeg"].code = "0"
           THEN {"success"} ELSE {"failed"}

\* C6: single-stage, the extractor closed non-zero having emitted no stdout
\* chunk: the request is rejected and no handle exists, then and afterwards
\* (resolve() was never called and the route never got past its await).
C6_RejectsWithoutHandle ==
  (Topology = "single" /\ ClosedNonZero("ytdlp") /\ proc["ytdlp"].out = 0)
    => /\ promise = "rejected"
       /\ "resolve" \notin Range(calls)
       /\ deliveredAfter = -1
       /\ pc \in {"awaiting", "failed"}

\* C6 witness: a signal exit (code null) with no output, rejected and answered
\* by the route's catch block.
C6_Witness ==
  /\ Topology = "single" /\ Closed("ytdlp") /\ proc["ytdlp"].code = "null"
  /\ proc["ytdlp"].out = 0 /\ ~proc["ytdlp"].errored
  /\ promise = "rejected" /\ pc = "failed"

\* C7: single-stage, a handle has been delivered only if the extractor had
\* emitted at least one stdout chunk.
C7_NoHandleBeforeFirstByte ==
  (Topology = "single" /\ (promise = "resolved" \/ "resolve" \in Range(calls)))
    => (proc["ytdlp"].out >= 1 /\ streamStarted)

\* C7 witness: the handle was delivered on the first chunk and the route
\* pipes it.
C7_Witness ==
  /\ Topology = "single" /\ promise = "resolved" /\ pc = "piping"
  /\ proc["ytdlp"].out = 1

\* C8: single-stage, the extractor emitted N > 0 chunks and exited 0.  Unless
\* the stream was destroyed by a disconnect, the chunks the consumer received
\* followed by those still buffered are exactly the N emitted, in order, the
\* stream has been ended by its source, it never errors, and when it has
\* ended the consumer has all N.  With the consumer connected the stream does
\* end.
C8_AllBytesInOrder ==
  /\ [](( /\ Topology = "single" /\ Closed("ytdlp") /\ proc["ytdlp"].code = "0"
          /\ proc["ytdlp"].out > 0 /\ stream.state /= "destroyed")
        => /\ stream.state \in {"open", "ended"}
           /\ stream.wEnded
           /\ received \o stream.buf = Emitted("ytdlp")
           /\ (stream.state = "ended" => received = Emitted("ytdlp")))
  /\ ( ( /\ Topology = "single" /\ Closed("ytdlp") /\ proc["ytdlp"].code = "0"
         /\ proc["ytdlp"].out > 0 )
       ~> (stream.state = "ended" \/ reqClosed) )

\* C8 witness: every chunk of a run of MaxChunks chunks reached the consumer
\* and the stream ended.
C8_Witness ==
  /\ Topology = "single" /\ Closed("ytdlp") /\ proc["ytdlp"].code = "0"
  /\ proc["ytdlp"].out = MaxChunks /\ stream.state = "ended"
  /\ received = Emitted("ytdlp") /\ Len(received) = MaxChunks

\* C9: single-stage, the extractor exited non-zero after the handle was
\* delivered: when nothing more can happen, the handle's stream has reached a
\* terminal state.
C9_NoHang ==
  (Topology = "single" /\ ClosedNonZero("ytdlp") /\ streamStarted /\ ~ENABLED Next)
    => StreamTerminal

\* C10: two-stage, the handle is delivered by the step that spawns the two
\* processes: no process exists while the promise is pending, the promise is
\* resolved as soon as they exist, and no event of either process had been
\* handled when it was resolved.
C10_ImmediateDelivery ==
  Topology = "two" =>
    /\ (promise = "pending" => \A p \in Procs : proc[p].st = "unspawned")
    /\ ((\E p \in Procs : proc[p].st /= "unspawned")
          => (promise = "resolved" /\ deliveredAfter = 0))

\* C10 witness: both processes spawned, the handle delivered, nothing handled.
C10_Witness ==
  /\ Topology = "two" /\ promise = "resolved" /\ pc = "awaiting"
  /\ \A p \in Procs : proc[p] = Spawned

\* C11: two-stage, a process failed to start ('error' handled): the caller
\* has observed the failure, as a rejection or as an error of the delivered
\* stream.
C11_SpawnFailureObserved ==
  (Topology = "two" /\ (\E p \in Procs : proc[p].errored))
    => (promise = "rejected" \/ stream.state = "errored")

\* C12: two-stage, stage 1 has closed non-zero and nothing more can happen:
\* stage 2 has terminated or has been signalled to terminate.
C12_Stage2NotLeftRunning ==
  (Topology = "two" /\ ClosedNonZero("ytdlp") /\ ~ENABLED Next)
    => (Closed("ffmpeg") \/ "ffmpeg" \in signalled)

\* C13: two-stage, stage 2 has closed abnormally (non-zero code or signal)
\* and nothing more can happen: stage 1 has terminated or been signalled, and
\* the handle's stream is in the failed (errored) state.
C13_Stage2DeathStopsStage1 ==
  (Topology = "two" /\ ClosedNonZero("ffmpeg") /\ ~proc["ffmpeg"].errored
     /\ ~reqClosed /\ Settled)
    => /\ (Closed("ytdlp") \/ "ytdlp" \in signalled)
       /\ stream.state = "errored"

\* C14: single-stage, the consumer closed its side while the request was
\* still SPAWNING (req 'close' fired while the route awaited the handle), and
\* the handle has since been delivered to the route: the stream is destroyed
\* and no owned process is left running unsignalled.
C14_DisconnectWhileSpawning ==
  (Topology = "single" /\ reqClosed /\ ~DisconnectHandled /\ pc = "piping")
    => /\ stream.state = "destroyed"
       /\ \A p \in Procs : Running(p) => p \in signalled

\* C15: once a disconnect has been handled the handle's stream is destroyed
\* (or had ended) with nothing buffered, and from then on no chunk reaches
\* the consumer or the stream's buffer, whatever the processes emit.
C15_NoDataAfterDisconnect ==
  /\ [](DisconnectHandled =>
          (stream.state \in {"destroyed", "ended"} /\ stream.buf = <<>>))
  /\ [][DisconnectHandled => (received' = received /\ stream'.buf = <<>>)]_vars

\* C15 witness: the disconnect was handled mid-stream and the source went on
\* to emit all its chunks and close.
C15_Witness ==
  /\ DisconnectHandled /\ stream.state = "destroyed"
  /\ Closed(Source) /\ proc[Source].out = MaxChunks
  /\ Len(received) < MaxChunks

C17_OneHandleNeverBoth ==
  /\ [](/\ Cardinality({ i \in DOMAIN calls : calls[i] = "resolve" }) <= 1
        /\ (pc = "piping" => promise = "resolved")
        /\ (pc = "failed" => promise = "rejected"))
  /\ [][(promise /= "pending" => promise' = promise)
          /\ (pc \in {"piping", "failed"} => pc' = pc)]_vars

\* C17 witness: a handle was delivered and a rejection was attempted after it.
C17_Witness ==
  /\ promise = "resolved" /\ pc = "piping"
  /\ calls = << "resolve", "reject" >>

C19_StateMachine ==
  /\ [](ReqState = "REJECTED" => Topology = "single")
  /\ [][ \/ ReqState' = ReqState
         \/ << ReqState, ReqState' >> \in
              { << "SPAWNING", "STREAMING" >>, << "SPAWNING", "REJECTED" >>,
                << "STREAMING", "DONE" >>, << "STREAMING", "FAILED" >> } ]_vars

\* C20: the extractor has recorded completion success only if no process of
\* the request has closed with a non-zero code.
C20_SuccessOnlyIfAllZero ==
  Entries("success") /= <<>> => \A p \in Procs : ~ClosedNonZero(p)

\* C21: the stderr text retained for the request, and the diagnostic text in
\* the rejection error, are never longer than the fixed limit.
C21_DiagnosticsBounded ==
  stderr <= DiagLimit /\ RejectionDiag <= DiagLimit

\* C22: the topology is single-stage exactly when postprocessorArgs is
\* absent, empty or whitespace-only and two-stage otherwise, whatever the
\* other profile fields and the video id; the branch taken at spawn is that
\* one (one process or two), and selecting changes nothing of the profile.
C22_TopologyByPostprocessorArgs ==
  /\ [](/\ Topology = IF Blank(postprocessorArgs) THEN "single" ELSE "two"
        /\ (SpawnDone =>
              spawnCount = [p \in Procs |->
                              IF p = "ytdlp" \/ ~Blank(postprocessorArgs) THEN 1 ELSE 0]))
  /\ [][UNCHANGED << postprocessorArgs, profile, videoId >>]_vars

\* C22 witness: a value of spaces and tabs only took the single-stage branch.
C22_Witness ==
  /\ postprocessorArgs.present /\ Len(postprocessorArgs.text) = MaxTextLen
  /\ "\t" \in Range(postprocessorArgs.text) /\ " " \in Range(postprocessorArgs.text)
  /\ SpawnDone /\ Topology = "single" /\ spawnCount["ffmpeg"] = 0

\* C26: two-stage, the transcoder was spawned with: -i pipe:0, then the
\* tokens of postprocessorArgs without its prefix tag, split at every
\* whitespace character, empty tokens dropped, in order, then -f audioFormat
\* pipe:1.
C26_TranscoderArgs ==
  (SpawnDone /\ Topology = "two") =>
    spawnArgs["ffmpeg"] =
      << Word("-i"), Word("pipe:0") >>
        \o Tokens(StripTag(postprocessorArgs.text))
        \o << Word("-f"), Word(profile.audioFormat), Word("pipe:1") >>

\* C27: single-stage, the extractor was spawned with the seven template
\* arguments, then additionalArgs unchanged and contiguous, then the source
\* locator of the video id as the last argument.
C27_AdditionalArgsVerbatim ==
  (SpawnDone /\ Topology = "single") =>
    LET args == spawnArgs["ytdlp"]
        n == Len(profile.additionalArgs)
    IN /\ Len(args) = 7 + n + 1
       /\ SubSeq(args, 1, 7) =
            << "-N", CpuCount, "-x", "--audio-format", profile.audioFormat, "--output", "-" >>
       /\ SubSeq(args, 8, 7 + n) = profile.additionalArgs
       /\ args[Len(args)] = VideoUrl(videoId)

\* C27 witness: two different additional arguments were passed on.
C27_Witness ==
  /\ SpawnDone /\ Topology = "single"
  /\ profile.additionalArgs = << "--y", "--x" >>
  /\ Len(spawnArgs["ytdlp"]) = 10

C24_RejectionIsErrorResponse ==
  /\ [](promise = "rejected" =>
          /\ received = <<>> /\ res.status /= "200"
          /\ (pc = "awaiting" => ENABLED RouteCatch)
          /\ (pc /= "awaiting" =>
                pc = "failed" /\ res.ended /\ res.status \in {"400", "404", "429", "500"}))
  /\ [][pc = "failed" => UNCHANGED << pc, res, received >>]_vars

\* C24 witness: a rejection that carried stderr text was answered 404 and the
\* extractor's close was handled after the answer.
C24_Witness ==
  /\ pc = "failed" /\ promise = "rejected" /\ res = [status |-> "404", ended |-> TRUE]
  /\ stderr > 0 /\ Closed("ytdlp") /\ received = <<>>

\* C28: each stage is spawned at most once (single-stage never spawns the
\* transcoder), and once a process has closed or failed to start, the request
\* is rejected, the latch is set or the consumer has disconnected, no spawn
\* happens.
C28_NoRetry ==
  /\ [](/\ \A p \in Procs : spawnCount[p] <= 1
        /\ (Topology = "single" => spawnCount["ffmpeg"] = 0))
  /\ [][(\/ promise = "rejected" \/ hasError \/ reqClosed
         \/ \E p \in Procs : Closed(p) \/ proc[p].errored)
          => (spawnCount' = spawnCount
                /\ \A p \in Procs : proc[p].st /= "unspawned" => proc'[p].st /= "unspawned")]_vars

\* C28 witness: a rejected request, answered, its one process closed.
C28_Witness ==
  /\ pc = "failed" /\ promise = "rejected" /\ ClosedNonZero("ytdlp")
  /\ spawnCount = [ytdlp |-> 1, ffmpeg |-> 0]
  /\ ~ENABLED Next

\* C29: the promise is resolved with exactly one handle, whose contentType
\* and fileExtension are the profile's, and no later event of a process or
\* of the consumer changes it.
C29_HandleCarriesProfile ==
  /\ [](/\ (promise = "resolved" <=> handle /= <<>>)
        /\ Len(handle) <= 1
        /\ (handle /= <<>> =>
              /\ handle[1].contentType = profile.contentType
              /\ handle[1].fileExtension = profile.fileExtension))
  /\ [][handle /= <<>> => UNCHANGED << handle, profile >>]_vars

\* C29 witness: a handle of each topology's profile, after a process failed.
C29_Witness ==
  /\ handle /= <<>> /\ handle[1].contentType = "audio/mp4" /\ Topology = "single"
  /\ pc = "piping" /\ ClosedNonZero("ytdlp")

\* C30: whatever the limit parameter, a request that passes the other checks
\* reaches the metadata provider with a limit between 1 and 5000: 50 when the
\* parameter is absent, 5000 when it is "none" in any letter case, min(n, 5000)
\* when it parses to a positive integer n, 50 for any other value.
C30_EffectiveLimit ==
  (rss.pc \notin {"idle", "start"} /\ RssOthersValid) =>
    /\ Len(rss.provider) = 1
    /\ rss.provider[1].limit \in 1..MaxLimit
    /\ rss.provider[1].limit =
         LET q == rssReq.limit
             n == ParseInt(q.text)
         IN IF q.kind = "absent" THEN DefaultLimit
            ELSE IF q.kind = "string" /\ ToLowerCase(q.text) = << "n", "o", "n", "e" >>
              THEN MaxLimit
            ELSE IF q.kind = "string" /\ ~n.nan /\ n.v > 0 THEN Min(n.v, MaxLimit)
            ELSE DefaultLimit

IsNonNegInteger(t) == t /= <<>> /\ \A i \in DOMAIN t : t[i] \in {"0", "1", "5", "9"}

\* The RSS request got past the limit block and has a valid identifier.
RssReachesMinDuration ==
  /\ rss.pc \notin {"idle", "start"}
  /\ rssReq.limit.kind /= "array"
  /\ rssReq.identifier >= 3

\* The request was answered 400 without a provider call.
RssAnswered400 == rss.pc = "answered" /\ rss.status = "400" /\ rss.provider = <<>>

\* The provider was called once with minimum duration n.
RssUsesMinDuration(n) ==
  rss.pc = "awaiting" /\ Len(rss.provider) = 1 /\ rss.provider[1].minDuration = n

\* C31: a request that carries a minDuration parameter is decided by the
\* parameter alone: a non-negative integer is used, anything else is answered
\* 400, whatever MIN_VIDEO_DURATION is; the environment value is used only
\* when the parameter is absent, and 0 when neither is set.
C31_MinDurationByParameter ==
  RssReachesMinDuration =>
    LET q == rssReq.minDuration
        env == rssReq.env
    IN IF q.kind /= "absent"
         THEN IF IsNonNegInteger(q.text)
                THEN RssUsesMinDuration(Decimal(q.text))
                ELSE RssAnswered400
       ELSE IF env.kind /= "absent"
         THEN IF IsNonNegInteger(env.text)
                THEN RssUsesMinDuration(Decimal(env.text))
                ELSE RssAnswered400
       ELSE RssUsesMinDuration(0)

\* The profile the audio request asks for is one the loaded file defines.
RequestedIsDefined ==
  audioReq.profile.present /\ audioReq.profile.name \in DOMAIN ProfilesConfig

\* C32: an audio request whose videoId is not 11 characters long is answered
\* 400, resolves no profile and spawns no process, then or later; a request
\* with 11 characters is not turned away by this check.
C32_InvalidVideoIdRejected ==
  /\ []((pc /= "received" /\ Length(videoId) /= 11) =>
          /\ pc = "answered" /\ res = [status |-> "400", ended |-> TRUE]
          /\ resolved = <<>>
          /\ \A p \in Procs : proc[p] = NoProc /\ spawnCount[p] = 0
          /\ promise = "pending" /\ calls = <<>>)
  /\ []((pc /= "received" /\ Length(videoId) = 11) => (pc /= "answered" /\ resolved /= <<>>))
  /\ [][pc = "answered" => UNCHANGED vars]_vars

\* C32 witness: a request with a 10-character id and a defined profile was
\* answered 400.
C32_Witness ==
  pc = "answered" /\ res.status = "400" /\ Length(videoId) = 10
    /\ audioReq.profile = Name("mp3")

\* C33: getProfileConfig returns the requested name with its configuration
\* exactly when the name is a profile of the loaded file; for every other
\* request it returns the default name (DEFAULT_AUDIO_PROFILE, else "mp3")
\* with the configuration the file has under that name.
C33_ProfileLookup ==
  resolved /= <<>> =>
    LET d == IF audioReq.env.present /\ audioReq.env.name /= ""
               THEN audioReq.env.name ELSE "mp3"
    IN resolved[1] =
         IF RequestedIsDefined
           THEN [profile |-> audioReq.profile.name,
                 profileConfig |-> ProfilesConfig[audioReq.profile.name]]
           ELSE [profile |-> d,
                 profileConfig |-> IF d \in DOMAIN ProfilesConfig
                                     THEN ProfilesConfig[d] ELSE Undefined]

\* Two-stage, both processes have closed with exit code 0.
BothExitedZero ==
  Topology = "two" /\ \A p \in Procs : Closed(p) /\ proc[p].code = "0"

\* C34: two-stage, both processes exited 0.  Completion success is recorded
\* exactly once and no failure is; unless the stream was destroyed by a
\* disconnect it has been ended by stage 2 and never errors, the chunks the
\* consumer received followed by those still buffered are exactly those stage
\* 2 emitted, in order, and when the stream has ended the consumer has them
\* all.  With the consumer connected the stream does end.
C34_TwoStageCompletes ==
  /\ [](BothExitedZero =>
          /\ Len(Entries("success")) = 1 /\ Entries("error") = <<>> /\ ~hasError
          /\ (stream.state /= "destroyed" =>
                /\ stream.state \in {"open", "ended"}
                /\ stream.wEnded
                /\ received \o stream.buf = Emitted("ffmpeg")
                /\ (stream.state = "ended" => received = Emitted("ffmpeg"))))
  /\ (BothExitedZero ~> (stream.state = "ended" \/ reqClosed))

\* C34 witness: stage 2 emitted MaxChunks chunks, both exited 0, the stream
\* ended and the consumer has every chunk.
C34_Witness ==
  /\ BothExitedZero /\ proc["ffmpeg"].out = MaxChunks
  /\ stream.state = "ended" /\ received = Emitted("ffmpeg")
  /\ Len(Entries("success")) = 1

\* C35: two-stage, a request is never recorded both as completed and as
\* failed: once success is recorded no failure is recorded, and once the
\* latch is set no success is recorded.
C35_NeverBothOutcomes ==
  /\ [](Topology = "two" => RecordedKinds /= {"success", "failed"})
  /\ [][(Topology = "two" /\ Entries("success") /= <<>>) =>
          Entries("error")' = Entries("error")]_vars
  /\ [][(Topology = "two" /\ hasError) => Entries("success")' = Entries("success")]_vars

\* The call of fetchVideosFromPlaylist is over.
FetchOver == fetch.pc \in {"returned", "threw"}

\* C36: fetchVideosFromPlaylist terminates: every iteration leaves the loop
\* or increases totalFetched by at least one, at most min(limit, 5000) page
\* requests are issued, and the call does end.
C36_FetchTerminates ==
  /\ [][fetch.pc = "loop" =>
          (fetch'.pc /= "loop" \/ fetch'.totalFetched >= fetch.totalFetched + 1)]_vars
  /\ [](fetch.pc /= "idle" =>
          /\ fetch.requests <= Min(fetch.limit, PlaylistMax)
          /\ (fetch.pc = "loop" => fetch.requests <= fetch.totalFetched))
  /\ <>FetchOver

\* C36 witness: a limit of 3 took three page requests of one item each.
C36_Witness ==
  fetch.pc = "returned" /\ fetch.limit = 3 /\ fetch.requests = 3 /\ fetch.totalFetched = 3

\* C37: fetchVideosFromPlaylist never holds, and never returns, more than
\* min(limit, 5000) videos; every request asks for at most 50 items and for
\* no more than the budget that is left.
C37_FetchWithinLimit ==
  fetch.pc /= "idle" =>
    /\ fetch.videos <= Min(fetch.limit, PlaylistMax)
    /\ fetch.totalFetched <= Min(fetch.limit, PlaylistMax)
    /\ (fetch.pc = "returned" => FetchResult.videos <= Min(fetch.limit, PlaylistMax))
    /\ \A i \in DOMAIN fetch.asked :
         /\ fetch.asked[i].maxResults \in 1..50
         /\ fetch.asked[i].maxResults <= fetch.asked[i].budget
         /\ fetch.asked[i].budget \in 1..Min(fetch.limit, PlaylistMax)

\* C37 witness: a limit above the cap returned exactly 5000 videos, the last
\* page asked with less than a full page.
C37_Witness ==
  /\ fetch.pc = "returned" /\ fetch.limit = 5001 /\ FetchResult.videos = PlaylistMax
  /\ fetch.short > 0 /\ fetch.asked[1].maxResults < PageMax

\* The identifier resolved to no channel information: none came with the
\* resolution and no playlist item was there to take it from.
NoChannelInformation ==
  /\ yt.pc /= "idle" /\ ~yt.fetchThrew /\ ~yt.firstPlaylistItem
  /\ (yt.resolution.isPlaylist \/ ~yt.resolution.providedChannelInfo)

LongEnough(videos, m) ==
  SelectSeq(videos, LAMBDA video : video.duration.kind /= "number" \/ video.duration.v >= m)

\* C39: what getChannelWithVideos returns with minDuration > 0 is exactly the
\* videos whose duration is unknown or at least minDuration, in their
\* original order; with minDuration = 0 the list as fetched; totalVideos is
\* the number of videos returned.
C39_DurationFilter ==
  yt.pc = "returned" =>
    /\ yt.result[1].videos =
         IF yt.minDuration > 0 THEN LongEnough(yt.videos, yt.minDuration) ELSE yt.videos
    /\ yt.result[1].totalVideos = Len(yt.result[1].videos)

\* C39 witness: of three videos of 9, 4 and 5 seconds the second was dropped
\* for a minimum of 5, the others kept in order.
C39_Witness ==
  /\ yt.pc = "returned" /\ yt.minDuration = 5
  /\ [i \in DOMAIN yt.videos |-> yt.videos[i].duration] = << Seconds(9), Seconds(4), Seconds(5) >>
  /\ [i \in DOMAIN yt.result[1].videos |-> yt.result[1].videos[i].id] = << 1, 3 >>
  /\ yt.result[1].totalVideos = 2

\* The number of times the req 'close' listener has run.
CloseCount == Len(SelectSeq(log, LAMBDA e : e.at = "req.close"))

\* C40: a run of the req 'close' listener that finds the stream in a
\* terminal state, or that is not the first, destroys nothing, raises no
\* error and leaves the request's outcome as it was: the stream, the
\* processes, the promise, the latch, the response and the error and success
\* records are unchanged.
C40_CancellationIdempotent ==
  [][(CloseCount' = CloseCount + 1 /\ (StreamTerminal \/ CloseCount >= 1)) =>
       /\ stream' = stream
       /\ AllErrors' = AllErrors
       /\ RecordedKinds' = RecordedKinds
       /\ ReqState' = ReqState
       /\ UNCHANGED << proc, promise, calls, hasError, res, received, signalled, handle >>]_vars

\* C40 witness: the stream ended with every chunk delivered, then the
\* listener ran twice.
C40_Witness ==
  /\ CloseCount = 2 /\ stream.state = "ended" /\ Len(received) = MaxChunks
  /\ AllErrors = <<>>

============================================================================
